---- MODULE Spec2Model ----
(***************************************************************************)
(* A model of EmailFinder (src/src/email_finder.py): candidate generation, *)
(* the rate limiter, SMTP verification and the candidate selector.         *)
(*                                                                         *)
(* A Python str is a sequence of one-character strings.  Time is a         *)
(* natural number of clock units read by time.time(); only blocking calls  *)
(* (DNS lookup, time.sleep, the SMTP handshake, the caller between two     *)
(* finder calls) let the clock advance.                                    *)
(***************************************************************************)
EXTENDS Integers, Sequences, FiniteSets, TLC

\* ------------------------------------------------------------------ bounds

\* longest first name, last name or domain drawn for generate_permutations
MaxLen == 2

\* largest rate_limit_delay a finder is constructed with, in clock units
MaxDelay == 1

\* longest time one blocking call (DNS lookup, SMTP handshake, oversleep of
\* time.sleep, the caller between two finder calls) is observed to take
MaxDur == 1

\* how far the clock is followed past the construction of the finder
MaxTime == 2

\* the emails a run fetches, the funding events of an email and the
\* founders of a funding event, at most
MaxEmails == 2
MaxFundings == 2
MaxFounders == 2

\* ------------------------------------------------------------ Python str

\* the characters inputs are drawn from: a lower-case letter, an upper-case
\* letter and a whitespace character
Chars == {"a", "B", " "}

IsSpace(c) == c = " "

\* str.lower() on one character
LowerChar(c) == CASE c = "A" -> "a"
                  [] c = "B" -> "b"
                  [] c = "C" -> "c"
                  [] OTHER -> c

\* str.lower()
lower(s) == [i \in 1..Len(s) |-> LowerChar(s[i])]

RECURSIVE lstrip(_)
lstrip(s) == IF s # <<>> /\ IsSpace(Head(s)) THEN lstrip(Tail(s)) ELSE s

RECURSIVE rstrip(_)
rstrip(s) == IF s # <<>> /\ IsSpace(s[Len(s)])
             THEN rstrip(SubSeq(s, 1, Len(s) - 1))
             ELSE s

\* str.strip()
strip(s) == rstrip(lstrip(s))

\* all strings over Chars of length at most n
StrUpTo(n) == UNION {[1..k -> Chars] : k \in 0..n}

\* ------------------------------------------------- generate_permutations

\* generate_permutations with first.last and f+last listed in the wrong order
generate_permutations_swapped(first_name, last_name, domain) ==
    LET first == strip(lower(first_name))
        last  == strip(lower(last_name))
    IN  IF first = <<>> \/ last = <<>> \/ domain = <<>>
        THEN <<>>
        ELSE LET first_initial == <<first[1]>>
                 at == <<"@">> \o domain
             IN << first \o at,
                   first_initial \o last \o at,
                   first \o <<".">> \o last \o at,
                   first_initial \o <<".">> \o last \o at,
                   last \o at,
                   first \o last \o at,
                   last \o first \o at,
                   last \o <<".">> \o first \o at,
                   first \o <<"_">> \o last \o at,
                   first \o <<"-">> \o last \o at >>

\* generate_permutations that does not test the last name
generate_permutations_any_last(first_name, last_name, domain) ==
    LET first == strip(lower(first_name))
        last  == strip(lower(last_name))
    IN  IF first = <<>> \/ domain = <<>>
        THEN <<>>
        ELSE LET first_initial == <<first[1]>>
                 at == <<"@">> \o domain
             IN << first \o at,
                   first \o <<".">> \o last \o at,
                   first_initial \o last \o at,
                   first_initial \o <<".">> \o last \o at,
                   last \o at,
                   first \o last \o at,
                   last \o first \o at,
                   last \o <<".">> \o first \o at,
                   first \o <<"_">> \o last \o at,
                   first \o <<"-">> \o last \o at >>

\* EmailFinder.generate_permutations(first_name, last_name, domain)
generate_permutations(first_name, last_name, domain) ==
    LET first == strip(lower(first_name))
        last  == strip(lower(last_name))
    IN  IF first = <<>> \/ last = <<>> \/ domain = <<>>
        THEN <<>>
        ELSE LET first_initial == <<first[1]>>
                 at == <<"@">> \o domain
             IN << first \o at,
                   first \o <<".">> \o last \o at,
                   first_initial \o last \o at,
                   first_initial \o <<".">> \o last \o at,
                   last \o at,
                   first \o last \o at,
                   last \o first \o at,
                   last \o <<".">> \o first \o at,
                   first \o <<"_">> \o last \o at,
                   first \o <<"-">> \o last \o at >>

\* ------------------------------------------------- Optional[...] values

None == {}
Some(x) == {x}
TheValue(o) == CHOOSE x \in o : TRUE

\* ---------------------------------------------- EmailVerificationResult

EmailVerificationResult(email, is_valid, is_catch_all, smtp_code, message) ==
    [email |-> email, is_valid |-> is_valid, is_catch_all |-> is_catch_all,
     smtp_code |-> smtp_code, message |-> message]

\* ------------------------------------------------------- get_mx_records

\* str.rstrip(".") on the text of an exchange name
RECURSIVE rstrip_dot(_)
rstrip_dot(s) == IF s # <<>> /\ s[Len(s)] = "."
                 THEN rstrip_dot(SubSeq(s, 1, Len(s) - 1))
                 ELSE s

\* list.sort(key=lambda x: x[0]): a stable sort on the preference
RECURSIVE insert_by_preference(_, _)
insert_by_preference(sorted, rec) ==
    IF sorted = <<>> THEN <<rec>>
    ELSE IF rec[1] < Head(sorted)[1]
         THEN <<rec>> \o sorted
         ELSE <<Head(sorted)>> \o insert_by_preference(Tail(sorted), rec)

RECURSIVE sort_by_preference(_)
sort_by_preference(recs) ==
    IF recs = <<>> THEN <<>>
    ELSE insert_by_preference(
             sort_by_preference(SubSeq(recs, 1, Len(recs) - 1)),
             recs[Len(recs)])

\* what dns.resolver.resolve(domain, "MX") does: it returns answers (a
\* non-empty sequence of rdata) or raises
DnsExceptions == {"NXDOMAIN", "NoAnswer", "Exception"}

\* get_mx_records without its last except clause: a resolver error that is
\* neither NXDOMAIN nor NoAnswer propagates
get_mx_records_uncaught(dns) ==
    IF dns.raises = "none"
    THEN LET sorted == sort_by_preference(
                           [i \in 1..Len(dns.answers) |->
                               <<dns.answers[i].preference,
                                 rstrip_dot(dns.answers[i].exchange)>>])
         IN  [raises |-> "none", value |-> [i \in 1..Len(sorted) |-> sorted[i][2]]]
    ELSE IF dns.raises \in {"NXDOMAIN", "NoAnswer"}
         THEN [raises |-> "none", value |-> <<>>]
         ELSE [raises |-> dns.raises, value |-> <<>>]

\* EmailFinder.get_mx_records: the value returned, or the exception raised
get_mx_records(dns) ==
    IF dns.raises = "none"
    THEN LET mx_records == [i \in 1..Len(dns.answers) |->
                               <<dns.answers[i].preference,
                                 rstrip_dot(dns.answers[i].exchange)>>]
             sorted == sort_by_preference(mx_records)
         IN  [raises |-> "none", value |-> [i \in 1..Len(sorted) |-> sorted[i][2]]]
    ELSE IF dns.raises \in DnsExceptions
         THEN [raises |-> "none", value |-> <<>>]
         ELSE [raises |-> dns.raises, value |-> <<>>]

\* ----------------------------------------------------------- _rate_limit

\* _rate_limit that sleeps for the time already elapsed instead of the
\* time that remains
rate_limit_sleep_elapsed(time_now, last_request_time, delay) ==
    LET elapsed == time_now - last_request_time
    IN  IF elapsed < delay THEN elapsed ELSE 0

\* _rate_limit that never sleeps
rate_limit_sleep_never(time_now, last_request_time, delay) == 0

\* EmailFinder._rate_limit, lines 88-90: how long time.sleep is asked to sleep
rate_limit_sleep(time_now, last_request_time, delay) ==
    LET elapsed == time_now - last_request_time
    IN  IF elapsed < delay THEN delay - elapsed ELSE 0

\* ----------------------------------------------------------- _smtp_check

SmtpExceptions == {"SMTPServerDisconnected", "SMTPConnectError", "timeout", "Exception"}

\* _smtp_check that takes every code other than 550-553 for an acceptance
smtp_check_lenient(email, smtp) ==
    IF smtp.raises = "none"
    THEN IF smtp.code = 550 \/ smtp.code = 551 \/ smtp.code = 552 \/ smtp.code = 553
         THEN EmailVerificationResult(email, FALSE, FALSE, Some(smtp.code), smtp.message)
         ELSE EmailVerificationResult(email, TRUE, FALSE, Some(smtp.code), smtp.message)
    ELSE EmailVerificationResult(email, FALSE, FALSE, None, smtp.text)

\* EmailFinder._smtp_check: the result for what the handshake did; smtp is
\* [raises, code, message, text]: the exception raised inside the try block
\* ("none" if rcpt answered), the code and decoded message of the rcpt
\* answer, and str(e) of the exception
smtp_check(email, smtp) ==
    IF smtp.raises = "none"
    THEN IF smtp.code = 250
         THEN EmailVerificationResult(email, TRUE, FALSE, Some(smtp.code), smtp.message)
         ELSE IF smtp.code = 550
         THEN EmailVerificationResult(email, FALSE, FALSE, Some(smtp.code), smtp.message)
         ELSE IF smtp.code = 551 \/ smtp.code = 552 \/ smtp.code = 553
         THEN EmailVerificationResult(email, FALSE, FALSE, Some(smtp.code), smtp.message)
         ELSE EmailVerificationResult(email, FALSE, FALSE, Some(smtp.code),
                                      <<"Unexpected response: ">> \o smtp.message)
    ELSE IF smtp.raises = "SMTPServerDisconnected"
    THEN EmailVerificationResult(email, FALSE, FALSE, None, <<"Server disconnected">>)
    ELSE IF smtp.raises = "SMTPConnectError"
    THEN EmailVerificationResult(email, FALSE, FALSE, None,
                                 <<"Connection error: ">> \o smtp.text)
    ELSE IF smtp.raises = "timeout"
    THEN EmailVerificationResult(email, FALSE, FALSE, None, <<"Connection timeout">>)
    ELSE EmailVerificationResult(email, FALSE, FALSE, None, smtp.text)

\* ---------------------------------------------------------- verify_email

\* verify_email that goes to the handshake without calling _rate_limit
verify_after_mx_unthrottled(mx_records) ==
    IF mx_records = <<>> THEN "vret" ELSE "smtp"

\* verify_email without the early return of lines 98-105
verify_after_mx_no_return(mx_records) == "rate"

\* verify_email, lines 98-107: after get_mx_records returned, the call
\* returns the "No MX records found" result or goes on to _rate_limit
verify_after_mx(mx_records) ==
    IF mx_records = <<>> THEN "vret" ELSE "rate"

\* verify_email looping over mx_records[:3]
first_three(mx_records) ==
    SubSeq(mx_records, 1, IF Len(mx_records) < 3 THEN Len(mx_records) ELSE 3)

\* verify_email, line 109: mx_records[:2]
first_two(mx_records) ==
    SubSeq(mx_records, 1, IF Len(mx_records) < 2 THEN Len(mx_records) ELSE 2)

no_mx_result(email) ==
    EmailVerificationResult(email, FALSE, FALSE, None, <<"No MX records found">>)

\* verify_email returning a per-host diagnostic after the loop
unreachable_result_host_diagnostic(email) ==
    EmailVerificationResult(email, FALSE, FALSE, None, <<"Server disconnected">>)

unreachable_result(email) ==
    EmailVerificationResult(email, FALSE, FALSE, None, <<"All MX servers unreachable">>)

\* ------------------------------------ check_catch_all, find_valid_email

\* check_catch_all, line 206
catch_all_address(domain) == <<"nonexistent.user.xyz123abc", "@">> \o domain

\* str.split() of a string with no leading whitespace: the maximal runs
\* of non-whitespace characters, in order
RECURSIVE split_stripped(_)
split_stripped(s) ==
    IF s = <<>> THEN <<>>
    ELSE LET ends == {k \in 1..Len(s) : k = Len(s) \/ IsSpace(s[k + 1])}
             e == CHOOSE k \in ends : \A m \in ends : k <= m
         IN  <<SubSeq(s, 1, e)>> \o split_stripped(lstrip(SubSeq(s, e + 1, Len(s))))

\* str.split()
split(s) == split_stripped(lstrip(s))

\* find_email_from_full_name taking the second token for the last name
full_name_args_second(full_name) ==
    LET parts == split(strip(full_name))
    IN  IF Len(parts) < 2
        THEN [first_name |-> IF parts # <<>> THEN parts[1] ELSE <<>>,
              last_name |-> <<>>]
        ELSE [first_name |-> parts[1], last_name |-> parts[2]]

\* find_email_from_full_name, lines 244-251: the arguments it calls
\* find_valid_email with
full_name_args(full_name) ==
    LET parts == split(strip(full_name))
    IN  IF Len(parts) < 2
        THEN [first_name |-> IF parts # <<>> THEN parts[1] ELSE <<>>,
              last_name |-> <<>>]
        ELSE [first_name |-> parts[1], last_name |-> parts[Len(parts)]]

\* check_catch_all with the test inverted
check_catch_all_inverted(result) == ~result.is_valid

\* check_catch_all, line 208
check_catch_all(result) == result.is_valid

\* the catch-all result built from the last candidate instead of the first
catch_all_result_last(permutations) ==
    EmailVerificationResult(permutations[Len(permutations)], TRUE, TRUE, Some(250),
                            <<"Catch-all domain - using best guess">>)

\* the catch-all result without its catch-all flag
catch_all_result_unflagged(permutations) ==
    EmailVerificationResult(permutations[1], TRUE, FALSE, Some(250),
                            <<"Catch-all domain - using best guess">>)

\* find_valid_email, lines 218-224
catch_all_result(permutations) ==
    EmailVerificationResult(permutations[1], TRUE, TRUE, Some(250),
                            <<"Catch-all domain - using best guess">>)

\* the loop that never returns from inside: it goes on after a valid result
candidate_accepted_never(result) == FALSE

\* the loop that returns the first result whatever its validity
candidate_accepted_any(result) == TRUE

\* find_valid_email, line 233: the loop returns the result of this candidate
candidate_accepted(result) == result.is_valid

\* --------------------------------------------------------------- state

\* ------------------------------------------------- API backend: verify

\* the most status polls of one verification
MaxPollAttempts == 10

\* the sleep before each status poll
PollInterval == 2

\* the categorical result field of a response of the service
ApiResults == {"deliverable", "risky", "undeliverable", "unknown"}

\* what a request to the service gives: a response, pending or completed,
\* or a transport-layer error
ApiResponses ==
    {[kind |-> "pending", result |-> "none", is_accept_all |-> FALSE, score |-> None]}
    \cup {[kind |-> "completed", result |-> r, is_accept_all |-> b, score |-> sc] :
            r \in ApiResults, b \in BOOLEAN, sc \in {None, Some(90)}}
    \cup {[kind |-> e, result |-> "none", is_accept_all |-> FALSE, score |-> None] :
            e \in {"HTTPStatusError", "ConnectError"}}

\* the result for a completed response: deliverable or risky is valid, the
\* accept-all flag and the score are passed on whatever the validity
api_result(resp) ==
    [is_valid |-> resp.result \in {"deliverable", "risky"},
     is_catch_all |-> resp.is_accept_all,
     score |-> resp.score,
     message |-> <<resp.result>>]

\* the result when the poll loop is exhausted
api_timeout_result ==
    [is_valid |-> FALSE, is_catch_all |-> FALSE, score |-> None,
     message |-> <<"Verification timeout">>]

\* the result for a transport-layer error
api_error_result(kind) ==
    [is_valid |-> FALSE, is_catch_all |-> FALSE, score |-> None,
     message |-> <<kind>>]

\* a poll loop with no attempt ceiling
api_after_pending_unbounded(attempt) == "sleep"

\* the poll loop after a pending response, attempt polls made: sleep and
\* poll again, or give up
api_after_pending(attempt) ==
    IF attempt < MaxPollAttempts THEN "sleep" ELSE "timeout"

VARIABLES
    g_first, g_last, g_domain,  \* arguments of a generate_permutations call
    g_out,                      \* its return value
    g_pc,                       \* "call" before the call, "done" after it
    rate_limit_delay,           \* self.rate_limit_delay
    last_request_time,          \* self._last_request_time
    now,                        \* what time.time() returns
    pc,                         \* where the flow of control is: "idle" (in the
                                \* caller), "dns" (about to resolve MX), "rate"
                                \* (about to call _rate_limit), "smtp" (about to
                                \* call _smtp_check), "vret" (verify_email
                                \* returns), "done" (find_valid_email is over)
    first_name, last_name, domain,  \* arguments of find_valid_email
    phase,                      \* "catch_all" or "candidates"
    permutations, idx,          \* the loop of lines 229-235
    email,                      \* argument of verify_email
    mx_records, host_i,         \* the loop of lines 109-116
    result,                     \* what verify_email returned last
    ret,                        \* what find_valid_email returned
    raised,                     \* the exception that reached the caller
    verified,                   \* history: the verify_email calls of this
                                \* find_valid_email call, [email, is_valid]
    io_log,                     \* history: what this verify_email call did
    rl_calls,                   \* history: _rate_limit calls so far (0, 1, many)
    rl_slept,                   \* history: the sleep of the last _rate_limit
    rl_gap,                     \* history: time between the last two returns
                                \* of _rate_limit
    hs_start,                   \* history: when the first handshake of the
                                \* last verify_email call started
    hs_end,                     \* history: when the last handshake ended
    hs_gap,                     \* history: time between the first handshakes
                                \* of the last two verify_email calls
    idle_gap,                   \* history: time from the end of the previous
                                \* call's last handshake to the start of this
                                \* call's first handshake
    span,                       \* history: time from the previous call's first
                                \* handshake start to its last handshake end
    dns_raised,                 \* history: what dns.resolver.resolve raised in
                                \* this verify_email call ("none": it answered)
    contacted,                  \* history: the hosts the loop of lines 109-116
                                \* has contacted so far, while it runs
    smtp_log,                   \* history: for each _smtp_check call of this
                                \* verify_email call, whether the handshake
                                \* raised
    entry_last,                 \* history: _last_request_time when this
                                \* verify_email call was entered
    conn_open,                  \* history: a connection this verify_email call
                                \* opened is still open after _smtp_check
                                \* returned
    full_name,                  \* find_email_from_full_name: its argument
    a_pc,                       \* API backend, verify: "idle", "request",
                                \* "sleep", "poll", "done"
    a_attempt,                  \* API backend: status polls made so far
    a_slept,                    \* API backend: time slept in the poll loop
    a_response,                 \* API backend: the last response received
    a_result,                   \* API backend: what verify returned
    a_raised,                   \* API backend: what verify raised
    c_pc,                       \* per flow, its position in _rate_limit:
                                \* "out", "sleep" (line 90), "stamp" (line 91)
    c_wake,                     \* per flow, when its sleep of line 90 ends
    c_stale,                    \* per flow, history: another flow has set
                                \* _last_request_time since this one read it
    c_returns,                  \* history: _rate_limit returns so far (0..2)
    c_gap,                      \* history: time between the last two returns
    c_overlap,                  \* history: the last return was of a call
                                \* that had read a stale _last_request_time
    cli_pc,                     \* cli: "start", "parse", "funding", "founder",
                                \* "draft", "mark", "end"
    dry_run,                    \* cli: the --dry-run flag
    emails,                     \* cli: how many emails were fetched
    email_i,                    \* cli: the email of the outer loop (index)
    fundings,                   \* cli: what parse_newsletter returned for it
    funding_i,                  \* cli: the funding of the middle loop (index)
    founder_i,                  \* cli: the founder of the inner loop (index)
    marked,                     \* the emails marked as processed
    cli_raised,                 \* cli: the exception that ended the run
    with_fundings,              \* history: the emails for which the parser
                                \* returned at least one funding event
    looked,                     \* history: the founders looked up for the
                                \* current funding, in the order of the calls
    drafted,                    \* history: the drafts made for the current
                                \* email, as (funding, founder)
    mark_early                  \* history: an email was marked while one of
                                \* its funding events was still to be handled

gvars == <<g_first, g_last, g_domain, g_out, g_pc>>

finder == <<rate_limit_delay, last_request_time>>

callvars == <<first_name, last_name, domain, phase, permutations, idx, email,
              mx_records, host_i, result, ret, raised, verified, io_log>>

timing == <<rl_calls, rl_slept, rl_gap, hs_start, hs_end, hs_gap, idle_gap, span>>

apivars == <<a_pc, a_attempt, a_slept, a_response, a_result, a_raised>>

clivars == <<cli_pc, dry_run, emails, email_i, fundings, funding_i, founder_i,
             marked, cli_raised, with_fundings, looked, drafted, mark_early>>

concvars == <<c_pc, c_wake, c_stale, c_returns, c_gap, c_overlap>>

history == <<dns_raised, contacted, smtp_log, entry_last, conn_open>>

\* the state of the other specifications of this module
outside == <<gvars, full_name, apivars, concvars, clivars>>

vars == <<finder, now, pc, callvars, timing, history, outside>>

\* ------------------------------------------------------------ environment

\* time.time() when the finder is constructed: seconds since 1970, far
\* above every rate_limit_delay
StartTime == MaxDelay + 1

TimeCap == StartTime + MaxTime

Durations == 0..MaxDur

\* a funding event as the loop of cli reads it: whether it has a
\* company_domain and, if it has, how many founder_names (those of a
\* funding with no domain are printed only)
Fundings == {[has_domain |-> FALSE, founders |-> 0]}
            \cup [has_domain : {TRUE}, founders : 0..MaxFounders]

\* what parse_newsletter may return
FundingLists == UNION {[1..k -> Fundings] : k \in 0..MaxFundings}

\* the flows that share the finder
Flows == {1, 2}

\* arguments find_valid_email is called with
FirstNames == {<<" ">>, <<"A", "b">>}
LastNames == {<<>>, <<"C">>}

\* arguments find_email_from_full_name is called with
FullNames == {<<>>, <<" ", "A", "b", " ">>, <<"A", "b", " ", "x", " ", "C">>}
Domains == {<<>>, <<"x">>}

\* the MX rdata a resolver may answer with, in any order
MXPool == {[preference |-> 10, exchange |-> <<"mx1", ".">>],
           [preference |-> 20, exchange |-> <<"mx2", ".">>],
           [preference |-> 10, exchange |-> <<"mx3", ".">>]}

Answers == {a \in UNION {[1..k -> MXPool] : k \in 1..Cardinality(MXPool)} :
               \A i, j \in 1..Len(a) : a[i] = a[j] => i = j}

DnsOutcomes == {[raises |-> "none", answers |-> a] : a \in Answers}
               \cup {[raises |-> e, answers |-> <<>>] : e \in DnsExceptions}

Codes == {250, 550, 551, 552, 553, 450}

\* what the handshake of lines 129-134 does. left_open: the exception was
\* raised after connect had succeeded and smtplib had not closed the socket
\* itself (it closes it before it raises SMTPServerDisconnected or
\* SMTPConnectError, and a socket.timeout comes from connect, before there
\* is a connection; an exception raised while a command is built, such as
\* UnicodeEncodeError for a non-ASCII recipient in rcpt, leaves it open)
SmtpOutcomes ==
    {[raises |-> "none", code |-> c, message |-> m, text |-> <<>>,
      left_open |-> FALSE] : c \in Codes, m \in {<<>>, <<"m">>}}
    \cup {[raises |-> e, code |-> 0, message |-> <<>>, text |-> t,
           left_open |-> FALSE] : e \in SmtpExceptions, t \in {<<>>, <<"e">>}}
    \cup {[raises |-> "Exception", code |-> 0, message |-> <<>>, text |-> <<"e">>,
           left_open |-> TRUE]}

\* ----------------------------------------------------------------- Init

InitCall ==
    /\ pc = "idle"
    /\ first_name = <<>> /\ last_name = <<>> /\ domain = <<>>
    /\ phase = "catch_all"
    /\ permutations = <<>> /\ idx = 0
    /\ email = <<>>
    /\ mx_records = <<>> /\ host_i = 0
    /\ result = None /\ ret = None /\ raised = "none"
    /\ verified = <<>> /\ io_log = <<>>

InitTiming ==
    /\ rl_calls = 0 /\ rl_slept = 0 /\ rl_gap = None
    /\ hs_start = None /\ hs_end = None /\ hs_gap = None
    /\ idle_gap = None /\ span = None

InitHistory ==
    /\ dns_raised = "none"
    /\ contacted = <<>> /\ smtp_log = <<>>
    /\ entry_last = 0
    /\ conn_open = FALSE

\* EmailFinder.__init__
InitFinder ==
    /\ rate_limit_delay \in 0..MaxDelay
    /\ last_request_time = 0
    /\ now = StartTime

\* find_email_from_full_name not yet called
InitName == full_name = <<>>

\* API backend: verify not yet called
InitApi ==
    /\ a_pc = "idle"
    /\ a_attempt = 0 /\ a_slept = 0
    /\ a_response = None /\ a_result = None
    /\ a_raised = "none"

\* no flow is in _rate_limit
InitConc ==
    /\ c_pc = [f \in Flows |-> "out"]
    /\ c_wake = [f \in Flows |-> 0]
    /\ c_stale = [f \in Flows |-> FALSE]
    /\ c_returns = 0
    /\ c_gap = None
    /\ c_overlap = FALSE

\* cli not yet run
InitCli ==
    /\ cli_pc = "start"
    /\ dry_run = FALSE
    /\ emails = 0 /\ email_i = 0
    /\ fundings = <<>> /\ funding_i = 0 /\ founder_i = 0
    /\ marked = {}
    /\ cli_raised = "none"
    /\ with_fundings = {}
    /\ looked = <<>> /\ drafted = <<>>
    /\ mark_early = FALSE

Init ==
    /\ InitFinder /\ InitCall /\ InitTiming /\ InitHistory
    /\ InitName /\ InitApi /\ InitConc /\ InitCli
    /\ g_first = <<>> /\ g_last = <<>> /\ g_domain = <<>>
    /\ g_out = <<>> /\ g_pc = "done"

\* -------------------------------------------------------------- actions

\* verify_email(address) is entered: line 95, up to the DNS lookup
EnterVerify(address) ==
    /\ email' = address
    /\ mx_records' = <<>> /\ host_i' = 0
    /\ result' = None
    /\ io_log' = <<>>
    /\ dns_raised' = "none"
    /\ contacted' = <<>> /\ smtp_log' = <<>>
    /\ entry_last' = last_request_time
    /\ conn_open' = FALSE
    /\ pc' = "dns"

\* find_valid_email(f, l, d) is entered: line 214, check_catch_all calls
\* verify_email
EnterFind(f, l, d) ==
    /\ pc = "idle"
    /\ first_name' = f /\ last_name' = l /\ domain' = d
    /\ phase' = "catch_all"
    /\ permutations' = <<>> /\ idx' = 0
    /\ ret' = None /\ raised' = "none"
    /\ verified' = <<>>
    /\ EnterVerify(catch_all_address(d))
    /\ UNCHANGED <<finder, now, timing>>

\* the caller calls find_valid_email(f, l, d)
Call(f, l, d) ==
    /\ EnterFind(f, l, d)
    /\ UNCHANGED outside

\* the caller calls find_email_from_full_name(name, d): lines 244-253
CallFullName(name, d) ==
    /\ full_name' = name
    /\ LET args == full_name_args(name)
       IN  EnterFind(args.first_name, args.last_name, d)
    /\ UNCHANGED <<gvars, apivars, concvars, clivars>>

\* verify_email, lines 96-105: get_mx_records, which took dur
Resolve(dns, dur) ==
    /\ pc = "dns"
    /\ now + dur <= TimeCap
    /\ now' = now + dur
    /\ io_log' = Append(io_log, "dns")
    /\ dns_raised' = dns.raises
    /\ LET got == get_mx_records(dns)
       IN  IF got.raises # "none"
           THEN /\ raised' = got.raises
                /\ pc' = "done"
                /\ UNCHANGED <<mx_records, host_i, result>>
           ELSE /\ mx_records' = got.value
                /\ host_i' = 1
                /\ pc' = verify_after_mx(got.value)
                /\ result' = IF got.value = <<>> THEN Some(no_mx_result(email))
                                                 ELSE None
                /\ UNCHANGED raised
    /\ UNCHANGED <<outside, finder, first_name, last_name, domain, phase,
                   permutations, idx, email, ret, verified, timing,
                   contacted, smtp_log, entry_last, conn_open>>

\* verify_email, line 107: _rate_limit, whose time.sleep overslept by over
RateLimit(over) ==
    /\ pc = "rate"
    /\ LET asked == rate_limit_sleep(now, last_request_time, rate_limit_delay)
           woke  == IF asked = 0 THEN now ELSE now + asked + over
       IN  /\ woke <= TimeCap
           /\ now' = woke
           /\ last_request_time' = woke
           /\ rl_slept' = asked
           /\ rl_gap' = IF rl_calls = 0 THEN None
                                        ELSE Some(woke - last_request_time)
    /\ rl_calls' = IF rl_calls < 2 THEN rl_calls + 1 ELSE rl_calls
    /\ io_log' = Append(io_log, "rate_limit")
    /\ pc' = "smtp"
    /\ UNCHANGED <<outside, rate_limit_delay, first_name, last_name, domain,
                   phase, permutations, idx, email, mx_records, host_i, result,
                   ret, raised, verified,
                   hs_start, hs_end, hs_gap, idle_gap, span, history>>

\* verify_email, lines 109-124: _smtp_check on the next of the first two
\* hosts, which took dur
SmtpCheck(smtp, dur) ==
    /\ pc = "smtp"
    /\ host_i \in 1..Len(first_two(mx_records))
    /\ now + dur <= TimeCap
    /\ now' = now + dur
    /\ io_log' = Append(io_log, "smtp")
    /\ IF "smtp" \in {io_log[i] : i \in 1..Len(io_log)}
       THEN UNCHANGED <<hs_start, hs_gap, idle_gap, span>>
       ELSE /\ hs_start' = Some(now)
            /\ hs_gap' = IF hs_start = None THEN None
                         ELSE Some(now - TheValue(hs_start))
            /\ idle_gap' = IF hs_end = None THEN None
                           ELSE Some(now - TheValue(hs_end))
            /\ span' = IF hs_end = None THEN None
                       ELSE Some(TheValue(hs_end) - TheValue(hs_start))
    /\ hs_end' = Some(now + dur)
    /\ smtp_log' = Append(smtp_log, smtp.raises # "none")
    /\ conn_open' = (conn_open \/ smtp.left_open)
    /\ LET checked == smtp_check(email, smtp)
       IN  IF checked.smtp_code # None
           THEN /\ result' = Some(checked)
                /\ pc' = "vret"
                /\ mx_records' = <<>> /\ host_i' = 0
                /\ contacted' = <<>>
           ELSE IF host_i < Len(first_two(mx_records))
           THEN /\ host_i' = host_i + 1
                /\ pc' = "smtp"
                /\ contacted' = Append(contacted, first_two(mx_records)[host_i])
                /\ UNCHANGED <<result, mx_records>>
           ELSE /\ result' = Some(unreachable_result(email))
                /\ pc' = "vret"
                /\ mx_records' = <<>> /\ host_i' = 0
                /\ contacted' = <<>>
    /\ UNCHANGED <<outside, finder, first_name, last_name, domain, phase,
                   permutations, idx, email, ret, raised, verified,
                   rl_calls, rl_slept, rl_gap, dns_raised, entry_last>>

\* find_valid_email returns value
Return(value) ==
    /\ ret' = value
    /\ pc' = "done"
    /\ UNCHANGED <<email, mx_records, host_i, result, io_log, history>>

\* find_valid_email, lines 226-238, from the loop's candidate number i on
Loop(perms, i) ==
    /\ permutations' = perms
    /\ phase' = "candidates"
    /\ IF i <= Len(perms)
       THEN /\ idx' = i
            /\ ret' = None
            /\ EnterVerify(perms[i])
       ELSE /\ UNCHANGED idx
            /\ Return(None)

\* verify_email returns result to find_valid_email, which goes on to its
\* next verify_email call or returns
VerifyReturn ==
    /\ pc = "vret"
    /\ LET res == TheValue(result)
       IN  /\ verified' = Append(verified, [email |-> res.email,
                                            is_valid |-> res.is_valid])
           /\ IF phase = "catch_all"
              THEN LET perms == generate_permutations(first_name, last_name, domain)
                   IN  IF check_catch_all(res) /\ perms # <<>>
                       THEN /\ Return(Some(catch_all_result(perms)))
                            /\ permutations' = perms
                            /\ UNCHANGED <<phase, idx>>
                       ELSE Loop(perms, 1)
              ELSE IF candidate_accepted(res)
                   THEN /\ Return(Some(res))
                        /\ UNCHANGED <<phase, permutations, idx>>
                   ELSE Loop(permutations, idx + 1)
    /\ UNCHANGED <<outside, finder, now, first_name, last_name, domain, raised,
                   timing>>

\* the caller goes on after find_valid_email returned or raised, and dur
\* passes before its next call
Finish(dur) ==
    /\ pc = "done"
    /\ now + dur <= TimeCap
    /\ now' = now + dur
    /\ pc' = "idle"
    /\ first_name' = <<>> /\ last_name' = <<>> /\ domain' = <<>>
    /\ phase' = "catch_all"
    /\ permutations' = <<>> /\ idx' = 0
    /\ email' = <<>>
    /\ mx_records' = <<>> /\ host_i' = 0
    /\ result' = None /\ ret' = None /\ raised' = "none"
    /\ verified' = <<>> /\ io_log' = <<>>
    /\ dns_raised' = "none"
    /\ contacted' = <<>> /\ smtp_log' = <<>>
    /\ entry_last' = 0
    /\ conn_open' = FALSE
    /\ UNCHANGED <<outside, finder, timing>>

Next ==
    \/ \E f \in FirstNames, l \in LastNames, d \in Domains : Call(f, l, d)
    \/ \E dns \in DnsOutcomes, dur \in Durations : Resolve(dns, dur)
    \/ \E over \in Durations : RateLimit(over)
    \/ \E smtp \in SmtpOutcomes, dur \in Durations : SmtpCheck(smtp, dur)
    \/ VerifyReturn
    \/ \E dur \in Durations : Finish(dur)

Spec == Init /\ [][Next]_vars

\* -------------------------------------- find_email_from_full_name calls

NextName ==
    \/ \E name \in FullNames, d \in Domains : CallFullName(name, d)
    \/ \E dns \in DnsOutcomes, dur \in Durations : Resolve(dns, dur)
    \/ \E over \in Durations : RateLimit(over)
    \/ \E smtp \in SmtpOutcomes, dur \in Durations : SmtpCheck(smtp, dur)
    \/ VerifyReturn
    \/ \E dur \in Durations : Finish(dur)

SpecName == Init /\ [][NextName]_vars

\* ------------------------------------------------ API backend, verify

\* verify has the response resp to its request or to a status poll
ApiRespond(resp) ==
    /\ a_response' = Some(resp)
    /\ a_raised' = "none"
    /\ IF resp.kind = "completed"
       THEN /\ a_result' = Some(api_result(resp))
            /\ a_pc' = "done"
       ELSE IF resp.kind = "pending"
       THEN IF api_after_pending(a_attempt') = "sleep"
            THEN /\ a_result' = None
                 /\ a_pc' = "sleep"
            ELSE /\ a_result' = Some(api_timeout_result)
                 /\ a_pc' = "done"
       ELSE /\ a_result' = Some(api_error_result(resp.kind))
            /\ a_pc' = "done"

\* verify(address) is called and its verification request is answered
ApiRequest(resp) ==
    /\ a_pc = "idle"
    /\ a_attempt' = 0
    /\ a_slept' = 0
    /\ ApiRespond(resp)
    /\ UNCHANGED <<finder, now, pc, callvars, timing, history, gvars,
                   full_name, concvars, clivars>>

\* the poll loop sleeps the fixed interval
ApiSleep ==
    /\ a_pc = "sleep"
    /\ a_slept' = a_slept + PollInterval
    /\ a_pc' = "poll"
    /\ UNCHANGED <<a_attempt, a_response, a_result, a_raised>>
    /\ UNCHANGED <<finder, now, pc, callvars, timing, history, gvars,
                   full_name, concvars, clivars>>

\* the poll loop re-checks the status
ApiPoll(resp) ==
    /\ a_pc = "poll"
    /\ a_attempt' = a_attempt + 1
    /\ ApiRespond(resp)
    /\ UNCHANGED a_slept
    /\ UNCHANGED <<finder, now, pc, callvars, timing, history, gvars,
                   full_name, concvars, clivars>>

\* the caller goes on after verify returned
ApiFinish ==
    /\ a_pc = "done"
    /\ a_pc' = "idle"
    /\ a_attempt' = 0 /\ a_slept' = 0
    /\ a_response' = None /\ a_result' = None
    /\ a_raised' = "none"
    /\ UNCHANGED <<finder, now, pc, callvars, timing, history, gvars,
                   full_name, concvars, clivars>>

NextApi ==
    \/ \E resp \in ApiResponses : ApiRequest(resp)
    \/ ApiSleep
    \/ \E resp \in ApiResponses : ApiPoll(resp)
    \/ ApiFinish

SpecApi == Init /\ [][NextApi]_vars

\* ------------------------------------ two flows in _rate_limit at once

\* flow f runs lines 88-89: it reads the clock and _last_request_time
ConcRead(f) ==
    /\ c_pc[f] = "out"
    /\ LET sleep == rate_limit_sleep(now, last_request_time, rate_limit_delay)
       IN  /\ c_wake' = [c_wake EXCEPT ![f] = now + sleep]
           /\ c_pc' = [c_pc EXCEPT ![f] = IF sleep > 0 THEN "sleep" ELSE "stamp"]
    /\ c_stale' = [c_stale EXCEPT ![f] = FALSE]
    /\ UNCHANGED <<c_returns, c_gap, c_overlap>>
    /\ UNCHANGED <<finder, now, pc, callvars, timing, history, gvars,
                   full_name, apivars, clivars>>

\* the time.sleep of flow f, line 90, returns: not before its time is over
ConcWake(f) ==
    /\ c_pc[f] = "sleep"
    /\ now >= c_wake[f]
    /\ c_pc' = [c_pc EXCEPT ![f] = "stamp"]
    /\ UNCHANGED <<c_wake, c_stale, c_returns, c_gap, c_overlap>>
    /\ UNCHANGED <<finder, now, pc, callvars, timing, history, gvars,
                   full_name, apivars, clivars>>

\* flow f runs line 91 and returns from _rate_limit
ConcStamp(f) ==
    /\ c_pc[f] = "stamp"
    /\ last_request_time' = now
    /\ c_pc' = [c_pc EXCEPT ![f] = "out"]
    /\ c_stale' = [g \in Flows |-> IF g = f THEN FALSE
                                    ELSE c_stale[g] \/ c_pc[g] # "out"]
    /\ c_gap' = IF c_returns = 0 THEN None ELSE Some(now - last_request_time)
    /\ c_overlap' = c_stale[f]
    /\ c_returns' = IF c_returns < 2 THEN c_returns + 1 ELSE c_returns
    /\ UNCHANGED <<c_wake, rate_limit_delay>>
    /\ UNCHANGED <<now, pc, callvars, timing, history, gvars, full_name, apivars, clivars>>

\* time passes
ConcTick ==
    /\ now < TimeCap
    /\ now' = now + 1
    /\ UNCHANGED <<finder, pc, callvars, timing, history, outside>>

NextConc ==
    \/ \E f \in Flows : ConcRead(f)
    \/ \E f \in Flows : ConcWake(f)
    \/ \E f \in Flows : ConcStamp(f)
    \/ ConcTick

SpecConc == Init /\ [][NextConc]_vars

\* ------------------------------------------------------ cli, its loop

\* the outer loop goes on to its next email, or ends
NextEmail ==
    /\ IF email_i < emails
       THEN /\ email_i' = email_i + 1
            /\ cli_pc' = "parse"
       ELSE /\ cli_pc' = "end"
            /\ UNCHANGED email_i
    /\ fundings' = <<>> /\ funding_i' = 0 /\ founder_i' = 0
    /\ looked' = <<>>

\* an HttpError of the Gmail client leaves cli: nothing catches it
CliRaise ==
    /\ cli_raised' = "HttpError"
    /\ cli_pc' = "end"

\* cli, lines 125-140: n emails are fetched
CliFetch(n, dry) ==
    /\ cli_pc = "start"
    /\ dry_run' = dry
    /\ emails' = n
    /\ IF n = 0
       THEN /\ cli_pc' = "end"
            /\ email_i' = 0
       ELSE /\ cli_pc' = "parse"
            /\ email_i' = 1
    /\ UNCHANGED <<fundings, funding_i, founder_i, marked, cli_raised,
                   with_fundings, looked, drafted, mark_early>>
    /\ UNCHANGED <<finder, now, pc, callvars, timing, history, gvars,
                   full_name, apivars, concvars>>

\* cli, lines 140-152: parse_newsletter returns fs for the email
CliParse(fs) ==
    /\ cli_pc = "parse"
    /\ drafted' = <<>>
    /\ IF fs = <<>>
       THEN /\ NextEmail
            /\ UNCHANGED with_fundings
       ELSE /\ fundings' = fs
            /\ funding_i' = 1
            /\ founder_i' = 0
            /\ looked' = <<>>
            /\ with_fundings' = with_fundings \cup {email_i}
            /\ cli_pc' = "funding"
            /\ UNCHANGED email_i
    /\ UNCHANGED <<dry_run, emails, marked, cli_raised, mark_early>>
    /\ UNCHANGED <<finder, now, pc, callvars, timing, history, gvars,
                   full_name, apivars, concvars>>

\* cli, lines 154-165: the middle loop takes its next funding, if any
CliFunding ==
    /\ cli_pc = "funding"
    /\ IF funding_i > Len(fundings)
       THEN /\ cli_pc' = "mark"
            /\ UNCHANGED <<funding_i, founder_i, looked>>
       ELSE IF ~fundings[funding_i].has_domain
       THEN /\ funding_i' = funding_i + 1
            /\ UNCHANGED <<cli_pc, founder_i, looked>>
       ELSE /\ founder_i' = 1
            /\ looked' = <<>>
            /\ cli_pc' = "founder"
            /\ UNCHANGED funding_i
    /\ UNCHANGED <<dry_run, emails, email_i, fundings, marked, cli_raised,
                   with_fundings, drafted, mark_early>>
    /\ UNCHANGED <<finder, now, pc, callvars, timing, history, gvars,
                   full_name, apivars, concvars>>

\* cli, lines 165-178: the inner loop takes its next founder, if any, and
\* find_email_from_full_name returns a result (found) or none
CliLookup(found) ==
    /\ cli_pc = "founder"
    /\ IF founder_i > fundings[funding_i].founders
       THEN /\ funding_i' = funding_i + 1
            /\ cli_pc' = "funding"
            /\ UNCHANGED <<founder_i, looked>>
       ELSE /\ looked' = Append(looked, founder_i)
            /\ IF found
               THEN /\ cli_pc' = "draft"
                    /\ UNCHANGED founder_i
               ELSE /\ founder_i' = founder_i + 1
                    /\ UNCHANGED cli_pc
            /\ UNCHANGED funding_i
    /\ UNCHANGED <<dry_run, emails, email_i, fundings, marked, cli_raised,
                   with_fundings, drafted, mark_early>>
    /\ UNCHANGED <<finder, now, pc, callvars, timing, history, gvars,
                   full_name, apivars, concvars>>

\* cli, lines 180-194: the draft is made and, unless dry_run, stored with
\* gmail.create_draft, which returns or raises HttpError; then break
CliDraft(raises) ==
    /\ cli_pc = "draft"
    /\ drafted' = Append(drafted, <<funding_i, founder_i>>)
    /\ IF ~dry_run /\ raises
       THEN /\ CliRaise
            /\ UNCHANGED funding_i
       ELSE /\ funding_i' = funding_i + 1
            /\ cli_pc' = "funding"
            /\ UNCHANGED cli_raised
    /\ UNCHANGED <<dry_run, emails, email_i, fundings, founder_i, marked,
                   with_fundings, looked, mark_early>>
    /\ UNCHANGED <<finder, now, pc, callvars, timing, history, gvars,
                   full_name, apivars, concvars>>

\* cli, lines 196-198: after the middle loop, unless dry_run,
\* gmail.mark_as_processed, which returns or raises HttpError
CliMark(raises) ==
    /\ cli_pc = "mark"
    /\ mark_early' = (mark_early \/ (~dry_run /\ funding_i <= Len(fundings)))
    /\ IF ~dry_run /\ raises
       THEN /\ CliRaise
            /\ UNCHANGED <<marked, email_i, fundings, funding_i, founder_i, looked>>
       ELSE /\ marked' = IF dry_run THEN marked ELSE marked \cup {email_i}
            /\ NextEmail
            /\ UNCHANGED cli_raised
    /\ UNCHANGED <<dry_run, emails, with_fundings, drafted>>
    /\ UNCHANGED <<finder, now, pc, callvars, timing, history, gvars,
                   full_name, apivars, concvars>>

NextCli ==
    \/ \E n \in 0..MaxEmails, dry \in BOOLEAN : CliFetch(n, dry)
    \/ \E fs \in FundingLists : CliParse(fs)
    \/ CliFunding
    \/ \E found \in BOOLEAN : CliLookup(found)
    \/ \E raises \in BOOLEAN : CliDraft(raises)
    \/ \E raises \in BOOLEAN : CliMark(raises)

SpecCli == Init /\ [][NextCli]_vars

\* ------------------------------------- generate_permutations, as a call

InitGen ==
    /\ InitCall /\ InitTiming /\ InitHistory
    /\ InitName /\ InitApi /\ InitConc /\ InitCli
    /\ rate_limit_delay = 0 /\ last_request_time = 0 /\ now = StartTime
    /\ g_first \in StrUpTo(MaxLen)
    /\ g_last \in StrUpTo(MaxLen)
    /\ g_domain \in StrUpTo(MaxLen)
    /\ g_out = <<>>
    /\ g_pc = "call"

Generate ==
    /\ g_pc = "call"
    /\ g_out' = generate_permutations(g_first, g_last, g_domain)
    /\ g_pc' = "done"
    /\ UNCHANGED <<g_first, g_last, g_domain, finder, now, pc, callvars, timing,
                   history, full_name, apivars, concvars, clivars>>

NextGen == Generate

SpecGen == InitGen /\ [][NextGen]_vars

\* ------------------------------------------------------------- claims

NonBlank(s) == \E i \in 1..Len(s) : ~IsSpace(s[i])
Blank(s) == \A i \in 1..Len(s) : IsSpace(s[i])

Normalized(s) == strip(lower(s))

\* the candidates of the current find_valid_email call
Candidates == generate_permutations(first_name, last_name, domain)

\* C1: when the catch-all probe is not valid, the verify_email calls after
\* the probe are the candidates in list order, a candidate is found valid
\* only as the last verify_email call of the find_valid_email call, and
\* that call returns this candidate's result: all candidates before it
\* were verified and found invalid, none after it is verified.
C1_FirstValidInOrder ==
    (verified # <<>> /\ ~verified[1].is_valid) =>
        /\ \A k \in 2..Len(verified) :
              /\ k - 1 <= Len(Candidates)
              /\ verified[k].email = Candidates[k - 1]
              /\ verified[k].is_valid =>
                    /\ k = Len(verified)
                    /\ pc = "done"
                    /\ ret # None /\ ret = result
                    /\ TheValue(ret).email = Candidates[k - 1]
                    /\ TheValue(ret).is_valid
        /\ (pc = "done" /\ ret # None) =>
              /\ Len(verified) >= 2
              /\ verified[Len(verified)].is_valid

\* C1 witness: the second candidate is returned after the probe and the
\* first candidate were found invalid
C1_Witness ==
    /\ pc = "done" /\ ret # None
    /\ Len(verified) = 3
    /\ ~verified[1].is_valid /\ ~verified[2].is_valid /\ verified[3].is_valid

\* what C2 says find_valid_email returns on a catch-all domain
IsCatchAllAnswer(r) ==
    /\ r # None
    /\ TheValue(r).email = Normalized(first_name) \o <<"@">> \o domain
    /\ TheValue(r).is_valid
    /\ TheValue(r).is_catch_all
    /\ TheValue(r).smtp_code = Some(250)

\* C2 as stated: whenever the catch-all probe is valid, find_valid_email
\* returns first@domain marked valid, catch-all, code 250, and the probe is
\* its only verify_email call.
C2_CatchAllAlwaysAnswers ==
    (pc = "done" /\ verified # <<>> /\ verified[1].is_valid) =>
        /\ IsCatchAllAnswer(ret)
        /\ Len(verified) = 1

\* C2 amended: when the catch-all probe is valid, the probe is the only
\* verify_email call of the find_valid_email call, which returns at once:
\* first@domain marked valid, catch-all, code 250 when first name, last name
\* and domain leave a candidate list, and none when they leave no candidate.
C2_CatchAllShortCircuit ==
    (verified # <<>> /\ verified[1].is_valid) =>
        /\ Len(verified) = 1
        /\ pc = "done"
        /\ IF NonBlank(first_name) /\ NonBlank(last_name) /\ domain # <<>>
           THEN IsCatchAllAnswer(ret)
           ELSE ret = None

\* C2 witness: a catch-all answer was returned after a valid probe
C2_Witness ==
    /\ pc = "done"
    /\ verified # <<>> /\ verified[1].is_valid
    /\ ret # None /\ TheValue(ret).is_catch_all

\* C3: for non-blank first name, last name and domain, the call returns
\* exactly the 10 addresses local@domain in the order first, first.last,
\* f+last, f.last, last, firstlast, lastfirst, last.first, first_last,
\* first-last (first and last lower-cased and stripped).
C3_TenInOrder ==
    (g_pc = "done" /\ NonBlank(g_first) /\ NonBlank(g_last) /\ NonBlank(g_domain)) =>
        LET f == Normalized(g_first)
            l == Normalized(g_last)
            locals == << f,
                         f \o <<".">> \o l,
                         <<f[1]>> \o l,
                         <<f[1]>> \o <<".">> \o l,
                         l,
                         f \o l,
                         l \o f,
                         l \o <<".">> \o f,
                         f \o <<"_">> \o l,
                         f \o <<"-">> \o l >>
        IN  /\ Len(g_out) = 10
            /\ \A i \in 1..10 : g_out[i] = locals[i] \o <<"@">> \o g_domain

\* C3 witness: a call whose names needed both lower-casing and stripping
C3_Witness ==
    /\ g_pc = "done"
    /\ Len(g_out) = 10
    /\ g_first = <<" ", "B">>
    /\ g_last = <<"B", " ">>

\* C4 as stated: a blank first name, last name or domain gives the empty
\* list.
C4_BlankGivesEmpty ==
    (g_pc = "done" /\ (Blank(g_first) \/ Blank(g_last) \/ Blank(g_domain))) =>
        g_out = <<>>

IsLowerCase(s) == \A i \in 1..Len(s) : LowerChar(s[i]) = s[i]
NoSurroundingSpace(s) == s = <<>> \/ (~IsSpace(s[1]) /\ ~IsSpace(s[Len(s)]))
AtIndex(e) == CHOOSE i \in 1..Len(e) : e[i] = "@"
LocalPart(e) == SubSeq(e, 1, AtIndex(e) - 1)
DomainPart(e) == SubSeq(e, AtIndex(e) + 1, Len(e))

\* C5 as stated: every returned candidate is entirely lower-case and has no
\* surrounding whitespace in its local part or its domain part.
C5_AllNormalized ==
    g_pc = "done" =>
        \A i \in 1..Len(g_out) :
            /\ IsLowerCase(g_out[i])
            /\ NoSurroundingSpace(LocalPart(g_out[i]))
            /\ NoSurroundingSpace(DomainPart(g_out[i]))

\* C6: find_valid_email returns none when there is no candidate and when
\* every verification (the probe's included) was invalid; a result it
\* returns is valid and its address is one of the candidates.
C6_NoneOrValidCandidate ==
    (pc = "done" /\ raised = "none") =>
        /\ Candidates = <<>> => ret = None
        /\ (\A k \in 1..Len(verified) : ~verified[k].is_valid) => ret = None
        /\ ret # None =>
              /\ TheValue(ret).is_valid
              /\ \E i \in 1..Len(Candidates) : Candidates[i] = TheValue(ret).email

\* C6 witness: the probe and all 10 candidates were verified and found
\* invalid, and none was returned
C6_Witness ==
    /\ pc = "done" /\ ret = None
    /\ Len(verified) = 11
    /\ \A k \in 1..11 : ~verified[k].is_valid

\* C7: no exception reaches the caller; every exception inside the
\* handshake gives an invalid result without a code, and a verify_email
\* call in which no host answered with a code (DNS failure, or the
\* handshake failed on every attempted host) returns an invalid result
\* with a non-empty message.
C7_NeverRaises ==
    /\ raised = "none"
    /\ \A smtp \in SmtpOutcomes :
          smtp.raises # "none" =>
              /\ ~smtp_check(email, smtp).is_valid
              /\ smtp_check(email, smtp).smtp_code = None
    /\ (pc = "vret" /\ TheValue(result).smtp_code = None) =>
          /\ ~TheValue(result).is_valid
          /\ TheValue(result).message # <<>>

\* C7 witness: verify_email returns after the handshake raised on both hosts
C7_Witness ==
    /\ pc = "vret"
    /\ io_log = <<"dns", "rate_limit", "smtp", "smtp">>
    /\ TheValue(result).smtp_code = None

C9_RateLimitGap ==
    /\ rl_gap # None => TheValue(rl_gap) >= rate_limit_delay
    /\ rl_calls = 1 => rl_slept = 0
    /\ hs_gap # None => TheValue(hs_gap) >= rate_limit_delay

\* C9 witness: the second verify_email call had to sleep before its handshake
C9_Witness ==
    /\ rate_limit_delay > 0
    /\ rl_gap # None /\ rl_slept > 0
    /\ hs_gap # None /\ hs_start = Some(last_request_time)

\* C10 as stated: the first handshake of a verify_email call starts at
\* least rate_limit_delay after the previous call's last handshake ended.
C10_GapFromEnd ==
    idle_gap # None => TheValue(idle_gap) >= rate_limit_delay

\* C10 amended: the interval is measured from the start of the previous
\* probe: the first handshake of a verify_email call starts at least
\* rate_limit_delay after the previous call's first handshake started, so
\* after the end of the previous call's last handshake it waits only for
\* what remains of rate_limit_delay.
C10_GapFromStart ==
    idle_gap # None =>
        TheValue(idle_gap) + TheValue(span) >= rate_limit_delay

\* C10 witness: a handshake took rate_limit_delay or longer and the next
\* call's handshake started as soon as it had ended
C10_Witness ==
    /\ rate_limit_delay > 0
    /\ idle_gap = Some(0)
    /\ span # None /\ TheValue(span) >= rate_limit_delay

\* the preference of the MX record of a host name
PrefOf(host) ==
    (CHOOSE r \in MXPool : rstrip_dot(r.exchange) = host).preference

Ascending(hosts) ==
    \A i, j \in 1..Len(hosts) : i < j => PrefOf(hosts[i]) <= PrefOf(hosts[j])

LogHas(event) == \E i \in 1..Len(io_log) : io_log[i] = event

\* C11: when the MX resolution raises (NXDOMAIN, NoAnswer or any other
\* resolver error), verify_email returns at once an invalid result with no
\* code and the message "No MX records found": no handshake is attempted
\* and _rate_limit is not called in that call.
C11_DnsFailureReturns ==
    dns_raised # "none" =>
        /\ pc \in {"vret", "done"}
        /\ result # None
        /\ TheValue(result).email = email
        /\ ~TheValue(result).is_valid
        /\ TheValue(result).smtp_code = None
        /\ TheValue(result).message = <<"No MX records found">>
        /\ io_log = <<"dns">>
        /\ smtp_log = <<>>

\* C11 witness: verify_email returns after the domain was reported absent
C11_Witness ==
    /\ pc = "vret"
    /\ dns_raised = "NXDOMAIN"

\* C12: get_mx_records returns all answered hosts in ascending order of
\* preference; verify_email contacts at most the first two of them, in
\* that order, the second only after the first handshake raised, and
\* returns the result of the first handshake that gave a code, so a first
\* host that raises and a second that answers 250 give a valid result.
C12_TwoHostsInOrder ==
    /\ pc = "dns" =>
          \A a \in Answers :
              LET hosts == get_mx_records([raises |-> "none", answers |-> a]).value
              IN  /\ Len(hosts) = Len(a)
                  /\ {hosts[i] : i \in 1..Len(hosts)} =
                        {rstrip_dot(a[i].exchange) : i \in 1..Len(a)}
                  /\ Ascending(hosts)
    /\ pc \in {"rate", "smtp"} => (mx_records # <<>> /\ Ascending(mx_records))
    /\ pc = "smtp" =>
          /\ host_i \in 1..2
          /\ host_i <= Len(mx_records)
          /\ contacted = SubSeq(mx_records, 1, host_i - 1)
          /\ Len(smtp_log) = host_i - 1
    /\ Len(smtp_log) <= 2
    /\ \A i \in 1..(Len(smtp_log) - 1) : smtp_log[i]
    /\ (pc = "vret" /\ smtp_log # <<>> /\ ~smtp_log[Len(smtp_log)]) =>
          /\ TheValue(result).smtp_code # None
          /\ TheValue(result).smtp_code = Some(250) => TheValue(result).is_valid

\* C12 witness: the first host raised, the second answered 250
C12_Witness ==
    /\ pc = "vret"
    /\ smtp_log = <<TRUE, FALSE>>
    /\ TheValue(result).is_valid

Rejections == {550, 551, 552, 553}

\* C13: the result of a handshake that got a code is decided by the code:
\* 250 gives a valid result, 550-553 an invalid one, any other code an
\* invalid one whose message starts with "Unexpected response", each with
\* that code; a handshake that raised gives an invalid result with no code.
C13_CodeDecides ==
    /\ pc = "smtp" =>
          \A smtp \in SmtpOutcomes :
              LET r == smtp_check(email, smtp)
              IN  IF smtp.raises = "none"
                  THEN /\ r.smtp_code = Some(smtp.code)
                       /\ r.is_valid <=> smtp.code = 250
                       /\ smtp.code \notin ({250} \cup Rejections) =>
                             /\ r.message # <<>>
                             /\ Head(r.message) = "Unexpected response: "
                  ELSE /\ ~r.is_valid
                       /\ r.smtp_code = None
    /\ (pc = "vret" /\ TheValue(result).smtp_code # None) =>
          LET r == TheValue(result)
              code == TheValue(r.smtp_code)
          IN  /\ r.is_valid <=> code = 250
              /\ code \notin ({250} \cup Rejections) =>
                    /\ r.message # <<>>
                    /\ Head(r.message) = "Unexpected response: "

\* C13 witness: verify_email returns the result of a handshake answered 450
C13_Witness ==
    /\ pc = "vret"
    /\ TheValue(result).smtp_code = Some(450)
    /\ ~TheValue(result).is_valid

\* C14: when every attempted host raised, verify_email returns an invalid
\* result with no code and the message "All MX servers unreachable".
C14_AllUnreachable ==
    (pc = "vret" /\ smtp_log # <<>> /\ \A i \in 1..Len(smtp_log) : smtp_log[i]) =>
        /\ ~TheValue(result).is_valid
        /\ TheValue(result).smtp_code = None
        /\ TheValue(result).message = <<"All MX servers unreachable">>

\* C14 witness: both attempted hosts raised
C14_Witness ==
    /\ pc = "vret"
    /\ smtp_log = <<TRUE, TRUE>>

\* C15: the first verify_email call of every find_valid_email call is the
\* one of check_catch_all, on nonexistent.user.xyz123abc@domain; no later
\* call of the find_valid_email call is on that address; and
\* check_catch_all is true iff the probe's result is valid: a returned
\* result is the catch-all answer iff the probe was valid.
C15_ProbeOnceFirst ==
    /\ (pc # "idle" /\ raised = "none") =>
          IF verified = <<>>
          THEN /\ phase = "catch_all"
               /\ email = catch_all_address(domain)
          ELSE /\ verified[1].email = catch_all_address(domain)
               /\ \A k \in 2..Len(verified) :
                     verified[k].email # catch_all_address(domain)
    /\ (pc = "done" /\ ret # None) =>
          (TheValue(ret).is_catch_all <=> verified[1].is_valid)

\* C15 witness: a candidate's result was returned after an invalid probe
C15_Witness ==
    /\ pc = "done" /\ ret # None
    /\ Len(verified) >= 2
    /\ ~verified[1].is_valid
    /\ ~TheValue(ret).is_catch_all

C19_AllClosed ==
    ~conn_open

\* the positions at which a token of s starts
TokenStarts(s) ==
    {k \in 1..Len(s) : ~IsSpace(s[k]) /\ (k = 1 \/ IsSpace(s[k - 1]))}

\* the positions at which a token of s ends
TokenEnds(s) ==
    {k \in 1..Len(s) : ~IsSpace(s[k]) /\ (k = Len(s) \/ IsSpace(s[k + 1]))}

Least(S) == CHOOSE k \in S : \A m \in S : k <= m
Greatest(S) == CHOOSE k \in S : \A m \in S : m <= k

FirstToken(s) == SubSeq(s, Least(TokenStarts(s)), Least(TokenEnds(s)))
LastToken(s) == SubSeq(s, Greatest(TokenStarts(s)), Greatest(TokenEnds(s)))

\* C16: find_email_from_full_name calls find_valid_email with the first
\* whitespace-separated token of the name as first name and the last token
\* as last name; with fewer than two tokens it calls it with the only token
\* (or the empty string) and an empty last name, raises nothing and
\* returns none.
C16_FirstAndLastToken ==
    pc # "idle" =>
        /\ IF Cardinality(TokenStarts(full_name)) >= 2
           THEN /\ first_name = FirstToken(full_name)
                /\ last_name = LastToken(full_name)
           ELSE /\ last_name = <<>>
                /\ first_name = IF TokenStarts(full_name) = {} THEN <<>>
                                ELSE FirstToken(full_name)
                /\ raised = "none"
                /\ pc = "done" => ret = None

\* C16 witness: a three-token name gave a result for first and last token
C16_Witness ==
    /\ pc = "done" /\ ret # None
    /\ Cardinality(TokenStarts(full_name)) = 3
    /\ TheValue(ret).email = <<"a", "b", ".", "c", "@", "x">>

\* C17: API backend: after a pending first response verify polls the
\* status at most 10 times, having slept 2 time units before each poll; a
\* poll answered deliverable gives a valid result; when the 10th poll is
\* still pending verify returns the timeout result, which is not valid,
\* and raises nothing.
C17_BoundedPolling ==
    /\ a_attempt <= 10
    /\ a_slept = 2 * (IF a_pc = "poll" THEN a_attempt + 1 ELSE a_attempt)
    /\ a_pc \in {"sleep", "poll"} => TheValue(a_response).kind = "pending"
    /\ (a_pc = "done" /\ a_attempt > 0 /\ TheValue(a_response).kind = "completed"
           /\ TheValue(a_response).result = "deliverable") =>
          TheValue(a_result).is_valid
    /\ (a_pc = "done" /\ TheValue(a_response).kind = "pending") =>
          /\ a_attempt = 10
          /\ a_result = Some(api_timeout_result)
          /\ ~TheValue(a_result).is_valid
          /\ a_raised = "none"

\* C17 witness: the 10th poll was still pending and verify returned
C17_Witness ==
    /\ a_pc = "done"
    /\ a_attempt = 10
    /\ a_slept = 20
    /\ TheValue(a_response).kind = "pending"
    /\ a_result # None

\* C20: two flows calling _rate_limit on one finder can return less than
\* rate_limit_delay apart (the witness), and they do so only when the
\* later one read _last_request_time before the earlier one set it: calls
\* that do not overlap return at least rate_limit_delay apart.
C20_CloseOnlyWhenOverlapped ==
    (c_gap # None /\ TheValue(c_gap) < rate_limit_delay) => c_overlap

\* C20 witness: both flows returned within one delay window
C20_Witness ==
    /\ rate_limit_delay > 0
    /\ c_gap # None
    /\ TheValue(c_gap) < rate_limit_delay
    /\ c_overlap
    /\ \A f \in Flows : c_pc[f] = "out"

\* how often event is in the I/O log of the current verify_email call
Count(event) == Cardinality({i \in 1..Len(io_log) : io_log[i] = event})

\* the verify_email calls the current find_valid_email call has made
VerifyCalls ==
    Len(verified) + (IF pc \in {"dns", "rate", "smtp", "vret"} THEN 1 ELSE 0)

\* what is left of a find_valid_email call at most: 8 steps for each
\* verify_email call not yet returned, less the steps of the current one
Remaining ==
    (12 - Len(verified)) * 8
    + (CASE pc = "dns" -> 5
         [] pc = "rate" -> 4
         [] pc = "smtp" -> 4 - host_i
         [] pc = "vret" -> 1
         [] OTHER -> 0)

\* C21: a find_valid_email call makes at most 11 verify_email calls, and
\* each verify_email call at most one _rate_limit call and at most two
\* handshakes (so at most 11 waits and 22 handshakes in all); every step
\* of the call, once its DNS lookup, sleep or handshake has returned,
\* brings the call nearer to its return, so the call terminates.
C21_BoundedAndTerminates ==
    /\ [](/\ VerifyCalls <= 11
          /\ Count("dns") <= 1
          /\ Count("rate_limit") <= 1
          /\ Count("smtp") <= 2
          /\ Len(io_log) = Count("dns") + Count("rate_limit") + Count("smtp")
          /\ Remaining >= 0)
    /\ [][pc \notin {"idle", "done"} => Remaining' < Remaining]_vars

\* C21 witness: a call returned after 11 verify_email calls, the last one
\* with a wait and two handshakes
C21_Witness ==
    /\ pc = "done"
    /\ Len(verified) = 11
    /\ Count("rate_limit") = 1
    /\ Count("smtp") = 2

\* C22: in every result verify_email or find_valid_email returns, a valid
\* result has the code 250 and a result with no code is not valid.
C22_ValidHasCode250 ==
    \A r \in (IF pc = "vret" THEN result ELSE {}) \cup (IF pc = "done" THEN ret ELSE {}) :
        /\ r.is_valid => r.smtp_code = Some(250)
        /\ r.smtp_code = None => ~r.is_valid

\* C22 witness: find_valid_email returned a candidate's own valid result
C22_Witness ==
    /\ pc = "done" /\ ret # None
    /\ ret = result
    /\ TheValue(ret).is_valid
    /\ TheValue(ret).smtp_code = Some(250)

\* C23: verify_email never returns a result with is_catch_all true; a
\* result find_valid_email returns has is_catch_all true iff it is the
\* catch-all answer: the probe was the only verify_email call and the
\* result's address was never passed to verify_email.
C23_CatchAllFlag ==
    /\ pc = "vret" => ~TheValue(result).is_catch_all
    /\ (pc = "done" /\ ret # None) =>
          LET r == TheValue(ret)
              handshaken == \E k \in 1..Len(verified) : verified[k].email = r.email
          IN  /\ r.is_catch_all <=> ~handshaken
              /\ r.is_catch_all <=> (Len(verified) = 1 /\ ret # result)
              /\ ~r.is_catch_all => (ret = result /\ smtp_log # <<>>)

\* C23 witness: the catch-all answer for an address never verified
C23_Witness ==
    /\ pc = "done" /\ ret # None
    /\ TheValue(ret).is_catch_all
    /\ Len(verified) = 1
    /\ verified[1].email # TheValue(ret).email

\* C24: with a blank first or last name find_valid_email makes exactly one
\* verify_email call, the catch-all probe, and returns none whether or not
\* the probe was valid.
C24_BlankNameProbeThenNone ==
    (pc # "idle" /\ (Blank(first_name) \/ Blank(last_name))) =>
        /\ raised = "none"
        /\ email = catch_all_address(domain)
        /\ phase = "catch_all" <=> pc # "done"
        /\ IF pc = "done"
           THEN /\ Len(verified) = 1
                /\ verified[1].email = catch_all_address(domain)
                /\ ret = None
           ELSE verified = <<>>

\* C24 witness: none returned for a blank first name on a catch-all domain
C24_Witness ==
    /\ pc = "done"
    /\ Blank(first_name) /\ ~Blank(last_name)
    /\ verified # <<>> /\ verified[1].is_valid
    /\ ret = None

\* C25: in the loop of cli the founders of a funding are looked up in
\* order and at most one draft is made for it, after which no further
\* founder is looked up; an email is marked only after all its funding
\* events were handled; and when cli is over a fetched email is marked iff
\* the run is not a dry run and the parser returned at least one funding
\* event for it.
C25_CliLoop ==
    /\ \A k \in 1..Len(looked) : looked[k] = k
    /\ \A j, k \in 1..Len(drafted) : drafted[j][1] = drafted[k][1] => j = k
    /\ cli_pc = "founder" =>
          \A k \in 1..Len(drafted) : drafted[k][1] # funding_i
    /\ ~mark_early
    /\ cli_pc = "end" =>
          \A e \in 1..emails :
              e \in marked <=> (~dry_run /\ e \in with_fundings)

====
